---------------------------- MODULE Spec2Model ----------------------------
(***************************************************************************)
(* A model of the go-gpt3 client: request construction, the transport      *)
(* invoker with its status check, the response decoder, the streaming      *)
(* reader of CompletionStreamWithEngine and the interview-question         *)
(* feature.  Byte strings are sequences of one-character strings.          *)
(***************************************************************************)
EXTENDS Integers, Sequences, FiniteSets, TLC

(***************************************************************************)
(* Bounds of the model.                                                    *)
(***************************************************************************)
\* the most lines a streamed response body holds
MaxLines == 3
\* the most lines the text of one completion choice holds (parser inputs)
MaxTextLines == 2

(***************************************************************************)
(* Byte-string helpers: the parts of Go's bytes and strings packages the   *)
(* client calls.                                                           *)
(***************************************************************************)
\* the white space bytes.TrimSpace and strings.TrimSpace cut
WhiteSpace == {" ", "\t", "\n", "\r"}

RECURSIVE TrimLeft(_)
TrimLeft(s) ==
    IF s # <<>> /\ Head(s) \in WhiteSpace THEN TrimLeft(Tail(s)) ELSE s

RECURSIVE TrimRight(_)
TrimRight(s) ==
    IF s # <<>> /\ s[Len(s)] \in WhiteSpace
    THEN TrimRight(SubSeq(s, 1, Len(s) - 1))
    ELSE s

TrimSpace(s) == TrimRight(TrimLeft(s))

HasPrefix(s, p) == Len(s) >= Len(p) /\ SubSeq(s, 1, Len(p)) = p

HasSuffix(s, p) ==
    Len(s) >= Len(p) /\ SubSeq(s, Len(s) - Len(p) + 1, Len(s)) = p

TrimPrefix(s, p) == IF HasPrefix(s, p) THEN SubSeq(s, Len(p) + 1, Len(s)) ELSE s

\* whether sep stands in s at the 1-based place i
MatchAt(s, sep, i) == \A j \in 1..Len(sep) : s[i + j - 1] = sep[j]

\* strings.Index: the 0-based place of the first sep in s, -1 when there is none
Index(s, sep) ==
    LET hits == {i \in 1..(Len(s) - Len(sep) + 1) : MatchAt(s, sep, i)}
    IN  IF hits = {} THEN -1
        ELSE (CHOOSE i \in hits : \A j \in hits : i <= j) - 1

\* strings.Split for a non-empty separator
RECURSIVE Split(_, _)
Split(s, sep) ==
    LET i == Index(s, sep)
    IN  IF i < 0 THEN <<s>>
        ELSE <<SubSeq(s, 1, i)>> \o Split(SubSeq(s, i + Len(sep) + 1, Len(s)), sep)

RECURSIVE Join(_, _)
Join(parts, sep) ==
    IF parts = <<>> THEN <<>>
    ELSE IF Len(parts) = 1 THEN parts[1]
    ELSE parts[1] \o sep \o Join(Tail(parts), sep)

Digits == {"0", "1", "2", "3", "4", "5", "6", "7", "8", "9"}

\* strconv.Atoi succeeds: an optional sign, then one or more decimal digits
AtoiOk(s) ==
    LET d == IF s # <<>> /\ s[1] \in {"+", "-"} THEN Tail(s) ELSE s
    IN  d # <<>> /\ \A i \in 1..Len(d) : d[i] \in Digits

(***************************************************************************)
(* The streaming wire format.                                              *)
(***************************************************************************)
dataPrefix == <<"d", "a", "t", "a", ":", " ">>
doneSequence == <<"[", "D", "O", "N", "E", "]">>

\* the zero CompletionResponse
ZeroResponse == [ID |-> "", Choices |-> <<>>]

idOpen == <<"{", "\"", "i", "d", "\"", ":", "\"">>
idClose == <<"\"", "}">>

\* json.Unmarshal of a payload into a new CompletionResponse: null and {} leave
\* the zero value, {"id":"<c>"} sets ID, a JSON number is well formed but is no
\* object (UnmarshalTypeError), anything else is a syntax error.
UnmarshalCompletion(data) ==
    LET t == TrimSpace(data)
    IN  IF t = <<"n", "u", "l", "l">> \/ t = <<"{", "}">>
        THEN [ok |-> TRUE, val |-> ZeroResponse, cause |-> "none"]
        ELSE IF /\ Len(t) = Len(idOpen) + 1 + Len(idClose)
                /\ HasPrefix(t, idOpen)
                /\ HasSuffix(t, idClose)
                /\ t[Len(idOpen) + 1] \notin {"\"", "\\"}
        THEN [ok |-> TRUE,
              val |-> [ID |-> t[Len(idOpen) + 1], Choices |-> <<>>],
              cause |-> "none"]
        ELSE IF t # <<>> /\ \A i \in 1..Len(t) : t[i] \in Digits
        THEN [ok |-> FALSE, val |-> ZeroResponse, cause |-> "UnmarshalTypeError"]
        ELSE [ok |-> FALSE, val |-> ZeroResponse, cause |-> "SyntaxError"]


(***************************************************************************)
(* JSON bodies.  json.Unmarshal and json.Decoder are modelled on the       *)
(* documents the model's servers send.                                     *)
(***************************************************************************)
\* a JSON string body holds no raw quote, backslash or control character
PlainChars(s) == \A i \in 1..Len(s) : s[i] \notin {"\"", "\\", "\n", "\r", "\t"}

envOpen ==
    <<"{", "\"", "e", "r", "r", "o", "r", "\"", ":", "{", "\"", "m", "e",
      "s", "s", "a", "g", "e", "\"", ":", "\"">>
envOpenCode ==
    <<"{", "\"", "e", "r", "r", "o", "r", "\"", ":", "{", "\"", "s", "t",
      "a", "t", "u", "s", "_", "c", "o", "d", "e", "\"", ":", "7", ",",
      "\"", "m", "e", "s", "s", "a", "g", "e", "\"", ":", "\"">>
envType ==
    <<"\"", ",", "\"", "t", "y", "p", "e", "\"", ":", "\"">>
envClose ==
    <<"\"", "}", "}">>
Unexpected ==
    <<"U", "n", "e", "x", "p", "e", "c", "t", "e", "d">>

\* the APIError of models.go; Message and Type are byte strings
APIError(code, type, msg) == [StatusCode |-> code, Type |-> type, Message |-> msg]

\* json.Unmarshal of an error body into an APIErrorResponse: {} leaves the zero
\* value; {"error":{"message":M}}, with an optional "type" after it or a
\* "status_code" before it, fills result.Error; anything else does not parse.
UnmarshalAPIErrorResponse(data) ==
    LET t == TrimSpace(data)
        open == IF HasPrefix(t, envOpenCode) THEN envOpenCode ELSE envOpen
        mid == SubSeq(t, Len(open) + 1, Len(t) - Len(envClose))
        parts == Split(mid, envType)
    IN  IF t = <<"{", "}">>
        THEN [ok |-> TRUE, Error |-> APIError(0, <<>>, <<>>)]
        ELSE IF /\ HasPrefix(t, open)
                /\ HasSuffix(t, envClose)
                /\ Len(t) >= Len(open) + Len(envClose)
                /\ Len(parts) <= 2
                /\ \A i \in 1..Len(parts) : PlainChars(parts[i])
        THEN [ok |-> TRUE,
              Error |-> APIError(IF open = envOpenCode THEN 7 ELSE 0,
                                 IF Len(parts) = 2 THEN parts[2] ELSE <<>>,
                                 parts[1])]
        ELSE [ok |-> FALSE, Error |-> APIError(0, <<>>, <<>>)]

chOpen ==
    <<"{", "\"", "c", "h", "o", "i", "c", "e", "s", "\"", ":", "[", "{",
      "\"", "t", "e", "x", "t", "\"", ":", "\"">>
chSep ==
    <<"\"", "}", ",", "{", "\"", "t", "e", "x", "t", "\"", ":", "\"">>
chClose ==
    <<"\"", "}", "]", "}">>

\* a JSON string body whose only escape is \n
RECURSIVE StringBodyOk(_)
StringBodyOk(s) ==
    IF s = <<>> THEN TRUE
    ELSE IF s[1] = "\\" THEN Len(s) >= 2 /\ s[2] = "n" /\ StringBodyOk(SubSeq(s, 3, Len(s)))
    ELSE s[1] \notin {"\"", "\n", "\r", "\t"} /\ StringBodyOk(Tail(s))

\* the text a JSON string body stands for
RECURSIVE Unescape(_)
Unescape(s) ==
    IF s = <<>> THEN <<>>
    ELSE IF s[1] = "\\" /\ Len(s) >= 2 THEN <<"\n">> \o Unescape(SubSeq(s, 3, Len(s)))
    ELSE <<s[1]>> \o Unescape(Tail(s))

\* the JSON string body a server writes for a text
RECURSIVE Escape(_)
Escape(s) ==
    IF s = <<>> THEN <<>>
    ELSE IF s[1] = "\n" THEN <<"\\", "n">> \o Escape(Tail(s))
    ELSE <<s[1]>> \o Escape(Tail(s))

\* the body a server writes for a completion with these choice texts
EncodeChoices(texts) ==
    IF texts = <<>> THEN <<"{", "}">>
    ELSE chOpen \o Join([i \in 1..Len(texts) |-> Escape(texts[i])], chSep) \o chClose

\* json.NewDecoder(body).Decode into a result object: the first JSON value of
\* the body is decoded and what follows it is left unread; {} and null leave the
\* zero value, {"id":"<c>"} sets ID, {"choices":[{"text":T},...]} sets Choices.
DecodeResult(body) ==
    LET t == TrimLeft(body)
        mid == SubSeq(t, Len(chOpen) + 1, Index(t, chClose))
        parts == Split(mid, chSep)
        n == Len(idOpen) + 1 + Len(idClose)
        one == IF Len(t) >= n THEN SubSeq(t, 1, n) ELSE t
    IN  IF HasPrefix(t, <<"{", "}">>) \/ HasPrefix(t, <<"n", "u", "l", "l">>)
        THEN [ok |-> TRUE, val |-> ZeroResponse]
        ELSE IF /\ HasPrefix(t, chOpen)
                /\ Index(t, chClose) >= Len(chOpen)
                /\ \A i \in 1..Len(parts) : StringBodyOk(parts[i])
        THEN [ok |-> TRUE,
              val |-> [ID |-> "",
                       Choices |-> [i \in 1..Len(parts) |-> [Text |-> Unescape(parts[i])]]]]
        ELSE IF UnmarshalCompletion(one).ok
        THEN [ok |-> TRUE, val |-> UnmarshalCompletion(one).val]
        ELSE [ok |-> FALSE, val |-> ZeroResponse]


(***************************************************************************)
(* What the servers of the model send.                                     *)
(***************************************************************************)
\* a blank keep-alive line
lnBlank ==
    <<>>
\* another SSE field
lnField ==
    <<"i", "d", ":", " ", "1">>
\* a data frame
lnEventA ==
    <<"d", "a", "t", "a", ":", " ", "{", "\"", "i", "d", "\"", ":", "\"",
      "a", "\"", "}">>
\* a data frame inside white space, ended \r\n
lnEventB ==
    <<" ", "d", "a", "t", "a", ":", " ", "{", "\"", "i", "d", "\"", ":",
      "\"", "b", "\"", "}", "\r">>
\* a data frame whose payload is cut short
lnBadJSON ==
    <<"d", "a", "t", "a", ":", " ", "{">>
\* a data frame whose payload is JSON but no object
lnNumber ==
    <<"d", "a", "t", "a", ":", " ", "1">>
\* the terminator
lnDone ==
    <<"d", "a", "t", "a", ":", " ", "[", "D", "O", "N", "E", "]">>
\* a data frame whose payload only starts with the sentinel
lnDoneMore ==
    <<"d", "a", "t", "a", ":", " ", "[", "D", "O", "N", "E", "]", "x">>
\* the data prefix with nothing after it
lnNoPayload ==
    <<"d", "a", "t", "a", ":", " ">>

StreamLines ==
    {lnBlank, lnField, lnEventA, lnEventB, lnBadJSON, lnNumber, lnDone,
     lnDoneMore, lnNoPayload}

\* the bytes of a body of these lines; the last line has no "\n" when the
\* connection ended inside it
RECURSIVE Serialize(_, _)
Serialize(lines, terminated) ==
    IF lines = <<>> THEN <<>>
    ELSE IF Len(lines) = 1 THEN lines[1] \o (IF terminated THEN <<"\n">> ELSE <<>>)
    ELSE lines[1] \o <<"\n">> \o Serialize(Tail(lines), terminated)

SeqsUpTo(S, n) == UNION {[1..k -> S] : k \in 0..n}

StreamBodies ==
    {Serialize(ls, t) : ls \in SeqsUpTo(StreamLines, MaxLines), t \in BOOLEAN}

\* the streamed bodies of at most one line
ShortStreamBodies ==
    {Serialize(ls, t) : ls \in SeqsUpTo(StreamLines, 1), t \in BOOLEAN}

bodyEnvelope ==
    <<"{", "\"", "e", "r", "r", "o", "r", "\"", ":", "{", "\"", "m", "e",
      "s", "s", "a", "g", "e", "\"", ":", "\"", "n", "o", "\"", "}", "}">>
bodyEnvelopeType ==
    <<"{", "\"", "e", "r", "r", "o", "r", "\"", ":", "{", "\"", "m", "e",
      "s", "s", "a", "g", "e", "\"", ":", "\"", "n", "o", "\"", ",",
      "\"", "t", "y", "p", "e", "\"", ":", "\"", "t", "\"", "}", "}">>
bodyEnvelopeCode ==
    <<"{", "\"", "e", "r", "r", "o", "r", "\"", ":", "{", "\"", "s", "t",
      "a", "t", "u", "s", "_", "c", "o", "d", "e", "\"", ":", "7", ",",
      "\"", "m", "e", "s", "s", "a", "g", "e", "\"", ":", "\"", "n", "o",
      "\"", "}", "}">>
bodyText ==
    <<"o", "o", "p", "s">>
bodyFrames ==
    <<"d", "a", "t", "a", ":", " ", "{", "\"", "i", "d", "\"", ":", "\"",
      "a", "\"", "}", "\n", "d", "a", "t", "a", ":", " ", "[", "D", "O",
      "N", "E", "]", "\n">>

\* the bodies of the responses that are not 2xx
ErrorBodies ==
    {bodyEnvelope, bodyEnvelopeType, bodyEnvelopeCode, bodyText, bodyFrames,
     <<"{", "}">>, <<>>}

textThree ==
    <<"1", ")", " ", "A", "?", "\n", "-", "B", "?", "\n", "C", "?">>
textOne ==
    <<"D", "?">>

ChoiceTexts == {textThree, textOne, <<>>}

\* the most choices a completion response holds
MaxChoices == 2

\* the bodies of the 2xx responses to the operations that decode one object
ResultBodies ==
    {EncodeChoices(cs) : cs \in SeqsUpTo(ChoiceTexts, MaxChoices)}
        \cup {<<"{", "\"", "i", "d", "\"", ":", "\"", "a", "\"", "}">>, bodyText, <<>>}

\* how a body ends once its bytes are read: io.EOF, or the connection broke
EndErrs == {"EOF", "ErrUnexpectedEOF"}

StatusCodes == {199, 200, 299, 300, 404}


(***************************************************************************)
(* The interview-question feature (final revision).                        *)
(***************************************************************************)
\* a *string or *int argument: absent (nil) or pointing at v
Nil == [set |-> FALSE, v |-> <<>>]
Ptr(x) == [set |-> TRUE, v |-> x]
NilInt == [set |-> FALSE, v |-> 0]

\* trimStr without the strings.TrimSpace
trimStr_NoTrim(input) == IF ~input.set THEN <<>> ELSE input.v

trimStr(input) == IF ~input.set THEN <<>> ELSE TrimSpace(input.v)

\* newLineRe.ReplaceAllString(input, " "): every \n, and every \r\n, becomes
\* one space.  The bullet that is cut next is not in the model's alphabet.
RECURSIVE formatInterviewInput(_)
formatInterviewInput(input) ==
    IF input = <<>> THEN <<>>
    ELSE IF input[1] = "\n" THEN <<" ">> \o formatInterviewInput(Tail(input))
    ELSE IF Len(input) >= 2 /\ input[1] = "\r" /\ input[2] = "\n"
    THEN <<" ">> \o formatInterviewInput(SubSeq(input, 3, Len(input)))
    ELSE <<input[1]>> \o formatInterviewInput(Tail(input))

promptTitle ==
    <<"C", "r", "e", "a", "t", "e", " ", "a", " ", "l", "i", "s", "t",
      " ", "o", "f", " ", "q", "u", "e", "s", "t", "i", "o", "n", "s",
      " ", "f", "o", "r", " ", "m", "y", " ", "i", "n", "t", "e", "r",
      "v", "i", "e", "w", " ", "w", "i", "t", "h", " ", "a", " ">>
promptDesc ==
    <<"C", "r", "e", "a", "t", "e", " ", "a", " ", "l", "i", "s", "t",
      " ", "o", "f", " ", "q", "u", "e", "s", "t", "i", "o", "n", "s",
      " ", "f", "o", "r", " ", "m", "y", " ", "i", "n", "t", "e", "r",
      "v", "i", "e", "w", " ", "w", "i", "t", "h", " ", "a", " ", "j",
      "o", "b", " ", "d", "e", "s", "c", "r", "i", "p", "t", "i", "o",
      "n", " ", "o", "f", " ">>

getInterviewPrompt(jobTitle, jobDesc) ==
    IF Len(jobTitle) > 0 /\ Len(jobDesc) > 0
    THEN promptTitle \o formatInterviewInput(jobTitle) \o <<",", " ">>
            \o formatInterviewInput(jobDesc)
    ELSE IF Len(jobTitle) > 0 THEN promptTitle \o formatInterviewInput(jobTitle)
    ELSE IF Len(jobDesc) > 0 THEN promptDesc \o formatInterviewInput(jobDesc)
    ELSE <<>>

\* parseText taking only a one-digit number for a marker (pos <= 1)
parseText_OneDigit(question) ==
    LET q0 == TrimSpace(question)
        q1 == IF HasPrefix(q0, <<"-">>) THEN Tail(q0) ELSE q0
        pos == Index(q1, <<")", " ">>)
        q2 == IF pos > -1 /\ pos <= 1 /\ AtoiOk(SubSeq(q1, 1, pos))
              THEN SubSeq(q1, pos + 3, Len(q1))
              ELSE q1
    IN  TrimSpace(q2)

\* the question of one kept line: trimmed, one leading "-" cut, then a leading
\* number of at most two characters with its ") " cut, and trimmed again
parseText(question) ==
    LET q0 == TrimSpace(question)
        q1 == IF HasPrefix(q0, <<"-">>) THEN Tail(q0) ELSE q0
        pos == Index(q1, <<")", " ">>)
        q2 == IF pos > -1 /\ pos <= 2 /\ AtoiOk(SubSeq(q1, 1, pos))
              THEN SubSeq(q1, pos + 3, Len(q1))
              ELSE q1
    IN  TrimSpace(q2)

\* the loop over the parts of one choice's text
RECURSIVE parseParts(_, _)
parseParts(parts, data) ==
    IF parts = <<>> THEN data
    ELSE LET part == Head(parts)
         IN  IF Len(part) > 0 /\ HasSuffix(part, <<"?">>)
             THEN parseParts(Tail(parts),
                             Append(data, [Index |-> Len(data) + 1,
                                           Question |-> parseText(part)]))
             ELSE parseParts(Tail(parts), data)

\* nil is the empty list
parseInterviewChoice(ch) ==
    IF Len(ch.Text) = 0 THEN <<>>
    ELSE parseParts(Split(ch.Text, <<"\n">>), <<>>)

\* the cap InterviewQuestions uses when args.Cap is nil
DefaultCap == 5

\* appending every item of a choice, whatever the cap
appendCapped_NoCap(questions, items, cap) == questions \o items

\* appending one choice's items to result.Questions, up to cap
RECURSIVE appendCapped(_, _, _)
appendCapped(questions, items, cap) ==
    IF items = <<>> \/ Len(questions) = cap THEN questions
    ELSE appendCapped(Append(questions, Head(items)), Tail(items), cap)

\* the loop over resp.Choices
RECURSIVE collectQuestions(_, _, _)
collectQuestions(choices, questions, cap) ==
    IF choices = <<>> THEN questions
    ELSE collectQuestions(Tail(choices),
                          appendCapped(questions, parseInterviewChoice(Head(choices)), cap),
                          cap)


(***************************************************************************)
(* Errors, results and responses.                                          *)
(***************************************************************************)
\* an error value: its kind, the APIError it is (kind "APIError"), and the
\* error it wraps or is
Err(type, api, cause) == [type |-> type, api |-> api, cause |-> cause]
NoAPIError == APIError(0, <<>>, <<>>)
NoErr == Err("nil", NoAPIError, "none")

\* a returned result: nil, or the decoded object (Questions for the interview
\* feature)
NilResult == [nil |-> TRUE, ID |-> "", Choices |-> <<>>, Questions |-> <<>>]
Result(val, questions) ==
    [nil |-> FALSE, ID |-> val.ID, Choices |-> val.Choices, Questions |-> questions]

NoResp == [StatusCode |-> 0, Body |-> <<>>, endErr |-> "EOF"]
NoRequest == [method |-> "", path |-> "", Stream |-> FALSE, Encodable |-> TRUE, Prompt |-> <<>>]

Ops == {"Engines", "Engine", "CompletionWithEngine", "CompletionStreamWithEngine",
        "SearchWithEngine", "InterviewQuestions"}

IsStreamOp(o) == o = "CompletionStreamWithEngine"

\* the contexts a caller passes: http.NewRequestWithContext refuses nil
Contexts == {"nil", "background"}

TitlePool == {Nil, Ptr(<<" ", "\t">>), Ptr(<<" ", "a", "\n">>)}
DescPool == {Nil, Ptr(<<>>), Ptr(<<"b">>)}
\* the largest cap a caller of the model passes; Cap is an *int, so a caller
\* may pass a negative one too
MaxCap == 2
CapPool == {NilInt} \cup {[set |-> TRUE, v |-> n] : n \in (0 - 1)..MaxCap}

(***************************************************************************)
(* The state of one client and one call.                                   *)
(***************************************************************************)
VARIABLES
    pc,           \* "idle", "built" (request built), "received" (a 2xx response
                  \* is held), "onData" (the handler is running), "done" (the
                  \* call has returned)
    op,           \* the operation called
    callerStream, \* the Stream field the caller put in the CompletionRequest
    args,         \* the InterviewArgs
    cap,          \* the cap InterviewQuestions resolved
    req,          \* the request newRequest built
    sent,         \* the requests handed to httpClient.Do, in order
    resp,         \* the response received
    received,     \* whether httpClient.Do returned a response
    offset,       \* how many bytes of the body the bufio reader has returned
    closeCount,   \* how many times resp.Body.Close has run
    onDataCalls,  \* the values onData was called with, in order
    result,       \* the result returned
    err,          \* the error returned
    pending,      \* the decoded events onData was called with and has not
                  \* returned from
    ch,           \* the choice parseInterviewChoice is applied to
    items         \* what parseInterviewChoice returned for ch

vars == <<pc, op, callerStream, args, cap, req, sent, resp, received, offset,
          closeCount, onDataCalls, pending, result, err, ch, items>>

NoArgs == [Cap |-> NilInt, JobTitle |-> Nil, JobDescription |-> Nil]

Init ==
    /\ pc = "idle"
    /\ op = "none"
    /\ callerStream = FALSE
    /\ args = NoArgs
    /\ cap = 0
    /\ req = NoRequest
    /\ sent = <<>>
    /\ resp = NoResp
    /\ received = FALSE
    /\ offset = 0
    /\ closeCount = 0
    /\ onDataCalls = <<>>
    /\ pending = <<>>
    /\ result = NilResult
    /\ err = NoErr
    /\ ch = [Text |-> <<>>]
    /\ items = <<>>

(***************************************************************************)
(* Request Builder.                                                        *)
(***************************************************************************)
\* newRequest: jsonBodyReader fails on a payload json.Marshal refuses, and
\* http.NewRequestWithContext on a nil context
newRequest(ctx, method, path, payload) ==
    IF ~payload.Encodable THEN [ok |-> FALSE, cause |-> "failed encoding json"]
    ELSE IF ctx = "nil" THEN [ok |-> FALSE, cause |-> "nil Context"]
    ELSE [ok |-> TRUE, cause |-> "none"]

\* the part every operation shares: build the request, or return the error
Build(o, ctx, method, path, payload) ==
    LET built == newRequest(ctx, method, path, payload)
    IN  /\ op' = o
        /\ IF built.ok
           THEN /\ pc' = "built"
                /\ req' = [method |-> method, path |-> path, Stream |-> payload.Stream,
                           Encodable |-> TRUE, Prompt |-> payload.Prompt]
                /\ UNCHANGED <<result, err>>
           ELSE /\ pc' = "done"
                /\ req' = NoRequest
                /\ result' = NilResult
                /\ err' = Err("build", NoAPIError, built.cause)
        /\ UNCHANGED <<sent, resp, received, offset, closeCount, onDataCalls, pending, ch, items>>

NoPayload == [Stream |-> FALSE, Encodable |-> TRUE, Prompt |-> <<>>]

Engines(ctx) ==
    /\ pc = "idle"
    /\ Build("Engines", ctx, "GET", "/engines", NoPayload)
    /\ UNCHANGED <<callerStream, args, cap>>

Engine(ctx) ==
    /\ pc = "idle"
    /\ Build("Engine", ctx, "GET", "/engines/%s", NoPayload)
    /\ UNCHANGED <<callerStream, args, cap>>

\* CompletionWithEngine without its first line
syncRequest_Keep(request) == request

\* request.Stream = false
syncRequest(request) == [request EXCEPT !.Stream = FALSE]

\* request.Stream = true
streamRequest(request) == [request EXCEPT !.Stream = TRUE]

\* request.Stream = false, then newRequest.  Completion calls this with the
\* default engine.
CompletionWithEngine(ctx, request) ==
    /\ pc = "idle"
    /\ callerStream' = request.Stream
    /\ Build("CompletionWithEngine", ctx, "POST", "/engines/%s/completions",
             syncRequest(request))
    /\ UNCHANGED <<args, cap>>

\* request.Stream = true, then newRequest.  CompletionStream calls this with
\* the default engine.
CompletionStreamWithEngine(ctx, request) ==
    /\ pc = "idle"
    /\ callerStream' = request.Stream
    /\ Build("CompletionStreamWithEngine", ctx, "POST", "/engines/%s/completions",
             streamRequest(request))
    /\ UNCHANGED <<args, cap>>

SearchWithEngine(ctx) ==
    /\ pc = "idle"
    /\ Build("SearchWithEngine", ctx, "POST", "/engines/%s/search", NoPayload)
    /\ UNCHANGED <<callerStream, args, cap>>

\* InterviewQuestions up to its call of CompletionWithEngine, and that call up
\* to newRequest
InterviewQuestions(ctx, a) ==
    LET jobTitle == trimStr(a.JobTitle)
        jobDesc == trimStr(a.JobDescription)
    IN  /\ pc = "idle"
        /\ args' = a
        /\ IF Len(jobTitle) = 0 /\ Len(jobDesc) = 0
           THEN /\ op' = "InterviewQuestions"
                /\ pc' = "done"
                /\ result' = NilResult
                /\ err' = Err("validation", NoAPIError,
                              "must specify a job title or description")
                /\ UNCHANGED <<cap, req, sent, resp, received, offset, closeCount,
                               onDataCalls, pending, ch, items, callerStream>>
           ELSE /\ cap' = IF a.Cap.set THEN a.Cap.v ELSE DefaultCap
                /\ callerStream' = FALSE
                /\ Build("InterviewQuestions", ctx, "POST", "/engines/%s/completions",
                         [Stream |-> FALSE, Encodable |-> TRUE,
                          Prompt |-> getInterviewPrompt(jobTitle, jobDesc)])

(***************************************************************************)
(* Transport Invoker.                                                      *)
(***************************************************************************)
\* the range check with its upper end off by one
IsSuccess_Through300(statusCode) == statusCode >= 200 /\ statusCode <= 300

IsSuccess(statusCode) == statusCode >= 200 /\ statusCode < 300

\* checkForSuccess without result.Error.StatusCode = resp.StatusCode
checkForSuccess_KeepBodyCode(r) ==
    LET parsed == UnmarshalAPIErrorResponse(r.Body)
    IN  IF IsSuccess(r.StatusCode) THEN [err |-> NoErr, closes |-> 0]
        ELSE IF r.endErr # "EOF"
        THEN [err |-> Err("failed to read from body", NoAPIError, r.endErr),
              closes |-> 1]
        ELSE IF ~parsed.ok
        THEN [err |-> Err("APIError", APIError(r.StatusCode, Unexpected, r.Body), "none"),
              closes |-> 1]
        ELSE [err |-> Err("APIError", parsed.Error, "none"), closes |-> 1]

\* checkForSuccess on a response that is not 2xx: the body is read to its end
\* and closed, and the error is made from it
checkForSuccess(r) ==
    LET parsed == UnmarshalAPIErrorResponse(r.Body)
    IN  IF IsSuccess(r.StatusCode) THEN [err |-> NoErr, closes |-> 0]
        ELSE IF r.endErr # "EOF"
        THEN [err |-> Err("failed to read from body", NoAPIError, r.endErr),
              closes |-> 1]
        ELSE IF ~parsed.ok
        THEN [err |-> Err("APIError", APIError(r.StatusCode, Unexpected, r.Body), "none"),
              closes |-> 1]
        ELSE [err |-> Err("APIError",
                          [parsed.Error EXCEPT !.StatusCode = r.StatusCode], "none"),
              closes |-> 1]

\* the bodies a server of the model sends to this operation with this status:
\* every streamed body comes with status 200, the short ones with the other
\* statuses the client takes for a success
Bodies(o, statusCode) ==
    IF ~IsSuccess(statusCode) THEN ErrorBodies
    ELSE IF ~IsStreamOp(o) THEN ResultBodies
    ELSE IF statusCode = 200 THEN StreamBodies
    ELSE ShortStreamBodies

\* performRequest sending the request again when httpClient.Do failed
transportFailure_Retry == [pc |-> "built", err |-> NoErr]

\* performRequest when httpClient.Do failed: return nil, err
transportFailure == [pc |-> "done", err |-> Err("transport", NoAPIError, "Do")]

\* performRequest: httpClient.Do, then checkForSuccess
performRequest ==
    /\ pc = "built"
    /\ sent' = Append(sent, req)
    /\ \/ /\ received' = FALSE
          /\ pc' = transportFailure.pc
          /\ result' = NilResult
          /\ err' = transportFailure.err
          /\ UNCHANGED <<resp, closeCount>>
       \/ \E statusCode \in StatusCodes, endErr \in EndErrs :
            \E body \in Bodies(op, statusCode) :
                LET r == [StatusCode |-> statusCode, Body |-> body, endErr |-> endErr]
                    checked == checkForSuccess(r)
                IN  /\ received' = TRUE
                    /\ resp' = r
                    /\ closeCount' = closeCount + checked.closes
                    /\ IF checked.err = NoErr
                       THEN /\ pc' = "received"
                            /\ UNCHANGED <<result, err>>
                       ELSE /\ pc' = "done"
                            /\ result' = NilResult
                            /\ err' = checked.err
    /\ UNCHANGED <<op, callerStream, args, cap, req, offset, onDataCalls, pending, ch, items>>

(***************************************************************************)
(* Response Decoder.                                                       *)
(***************************************************************************)
\* getResponseObject closing the body only after a successful decode
getResponseObject_LeakOnError(r) ==
    LET decoded == DecodeResult(r.Body)
    IN  IF decoded.ok
        THEN [err |-> NoErr, val |-> decoded.val, closes |-> 1]
        ELSE [err |-> Err("invalid json response", NoAPIError, "Decode"),
              val |-> ZeroResponse, closes |-> 0]

\* getResponseObject: decode the body into the output object, and close it
getResponseObject(r) ==
    LET decoded == DecodeResult(r.Body)
    IN  IF decoded.ok
        THEN [err |-> NoErr, val |-> decoded.val, closes |-> 1]
        ELSE [err |-> Err("invalid json response", NoAPIError, "Decode"),
              val |-> ZeroResponse, closes |-> 1]

\* what an operation does with the 2xx response performRequest returned:
\* getResponseObject and, in InterviewQuestions, the loop over the choices
DecodeResponse ==
    /\ pc = "received"
    /\ ~IsStreamOp(op)
    /\ LET got == getResponseObject(resp)
       IN  /\ closeCount' = closeCount + got.closes
           /\ pc' = "done"
           /\ IF got.err # NoErr
              THEN /\ result' = NilResult
                   /\ err' = got.err
              ELSE /\ err' = NoErr
                   /\ result' = Result(got.val,
                                       IF op = "InterviewQuestions"
                                       THEN collectQuestions(got.val.Choices, <<>>, cap)
                                       ELSE <<>>)
    /\ UNCHANGED <<op, callerStream, args, cap, req, sent, resp, received, offset,
                   onDataCalls, pending, ch, items>>

\* a reader that returns the bytes left at the end of the body as a last
\* line, after the manner of bufio.Scanner
ReadBytes_FlushTail(body, off, endErr) ==
    LET rest == SubSeq(body, off + 1, Len(body))
        i == Index(rest, <<"\n">>)
    IN  IF i >= 0
        THEN [line |-> SubSeq(rest, 1, i + 1), err |-> "nil"]
        ELSE IF rest # <<>> THEN [line |-> rest, err |-> "nil"]
        ELSE [line |-> rest, err |-> endErr]

(***************************************************************************)
(* Streaming Reader.                                                       *)
(***************************************************************************)
\* reader.ReadBytes('\n'): the bytes up to and with the next "\n"; when the
\* body ends first, the bytes left and the error the body ends with
ReadBytes(body, off, endErr) ==
    LET rest == SubSeq(body, off + 1, Len(body))
        i == Index(rest, <<"\n">>)
    IN  IF i >= 0
        THEN [line |-> SubSeq(rest, 1, i + 1), err |-> "nil"]
        ELSE [line |-> rest, err |-> endErr]

\* the loop taking io.EOF for the end of a complete stream
readError_EOFIsNil(e) == IF e = "EOF" THEN NoErr ELSE Err("read", NoAPIError, e)

\* if err != nil { return err }: the error a failed read makes the call return
readError(e) == Err("read", NoAPIError, e)

\* the loop body without bytes.TrimSpace
ProcessLine_NoTrim(rawLine) ==
    LET line == rawLine
        payload == TrimPrefix(line, dataPrefix)
        output == UnmarshalCompletion(payload)
    IN  IF ~HasPrefix(line, dataPrefix)
        THEN [kind |-> "skip", val |-> ZeroResponse, cause |-> "none"]
        ELSE IF HasPrefix(payload, doneSequence)
        THEN [kind |-> "done", val |-> ZeroResponse, cause |-> "none"]
        ELSE IF ~output.ok
        THEN [kind |-> "fail", val |-> ZeroResponse, cause |-> output.cause]
        ELSE [kind |-> "event", val |-> output.val, cause |-> "none"]

\* the loop body looking for the sentinel at the start of the line, before the
\* prefix is cut
ProcessLine_DoneOnLine(rawLine) ==
    LET line == TrimSpace(rawLine)
        payload == TrimPrefix(line, dataPrefix)
        output == UnmarshalCompletion(payload)
    IN  IF ~HasPrefix(line, dataPrefix)
        THEN [kind |-> "skip", val |-> ZeroResponse, cause |-> "none"]
        ELSE IF HasPrefix(line, doneSequence)
        THEN [kind |-> "done", val |-> ZeroResponse, cause |-> "none"]
        ELSE IF ~output.ok
        THEN [kind |-> "fail", val |-> ZeroResponse, cause |-> output.cause]
        ELSE [kind |-> "event", val |-> output.val, cause |-> "none"]

\* the loop body taking for the terminator only a payload that is the sentinel
\* and nothing more (bytes.Equal)
ProcessLine_DoneEquals(rawLine) ==
    LET line == TrimSpace(rawLine)
        payload == TrimPrefix(line, dataPrefix)
        output == UnmarshalCompletion(payload)
    IN  IF ~HasPrefix(line, dataPrefix)
        THEN [kind |-> "skip", val |-> ZeroResponse, cause |-> "none"]
        ELSE IF payload = doneSequence
        THEN [kind |-> "done", val |-> ZeroResponse, cause |-> "none"]
        ELSE IF ~output.ok
        THEN [kind |-> "fail", val |-> ZeroResponse, cause |-> output.cause]
        ELSE [kind |-> "event", val |-> output.val, cause |-> "none"]

\* the loop body taking "data:" for the prefix of a data frame, the space left
\* out of the test
ProcessLine_PrefixNoSpace(rawLine) ==
    LET line == TrimSpace(rawLine)
        payload == TrimPrefix(line, dataPrefix)
        output == UnmarshalCompletion(payload)
    IN  IF ~HasPrefix(line, <<"d", "a", "t", "a", ":">>)
        THEN [kind |-> "skip", val |-> ZeroResponse, cause |-> "none"]
        ELSE IF HasPrefix(payload, doneSequence)
        THEN [kind |-> "done", val |-> ZeroResponse, cause |-> "none"]
        ELSE IF ~output.ok
        THEN [kind |-> "fail", val |-> ZeroResponse, cause |-> output.cause]
        ELSE [kind |-> "event", val |-> output.val, cause |-> "none"]

\* the loop body going on to the next line after a payload that does not decode
ProcessLine_SkipMalformed(rawLine) ==
    LET line == TrimSpace(rawLine)
        payload == TrimPrefix(line, dataPrefix)
        output == UnmarshalCompletion(payload)
    IN  IF ~HasPrefix(line, dataPrefix)
        THEN [kind |-> "skip", val |-> ZeroResponse, cause |-> "none"]
        ELSE IF HasPrefix(payload, doneSequence)
        THEN [kind |-> "done", val |-> ZeroResponse, cause |-> "none"]
        ELSE IF ~output.ok
        THEN [kind |-> "skip", val |-> ZeroResponse, cause |-> "none"]
        ELSE [kind |-> "event", val |-> output.val, cause |-> "none"]

\* the body of the loop after a line was read: "skip" (continue), "done"
\* (break), "fail" (return the decode error) or "event" (onData(output))
ProcessLine(rawLine) ==
    LET line == TrimSpace(rawLine)
        payload == TrimPrefix(line, dataPrefix)
        output == UnmarshalCompletion(payload)
    IN  IF ~HasPrefix(line, dataPrefix)
        THEN [kind |-> "skip", val |-> ZeroResponse, cause |-> "none"]
        ELSE IF HasPrefix(payload, doneSequence)
        THEN [kind |-> "done", val |-> ZeroResponse, cause |-> "none"]
        ELSE IF ~output.ok
        THEN [kind |-> "fail", val |-> ZeroResponse, cause |-> output.cause]
        ELSE [kind |-> "event", val |-> output.val, cause |-> "none"]

\* a loop that hands the event to onData and reads on (go onData(output))
loopTurn_Async(pcv) == pcv \in {"received", "onData"}

\* when the loop takes its next turn: onData(output) is a call, the loop goes
\* on when it has returned
loopTurn(pcv) == pcv = "received"

\* one turn of the loop of CompletionStreamWithEngine, up to the return of the
\* function or the call of onData; the deferred resp.Body.Close runs when the
\* function returns
StreamIteration ==
    /\ loopTurn(pc)
    /\ IsStreamOp(op)
    /\ LET read == ReadBytes(resp.Body, offset, resp.endErr)
           step == ProcessLine(read.line)
       IN  /\ offset' = offset + Len(read.line)
           /\ IF read.err # "nil"
              THEN /\ pc' = "done"
                   /\ err' = readError(read.err)
                   /\ closeCount' = closeCount + 1
                   /\ UNCHANGED <<onDataCalls, pending>>
              ELSE IF step.kind = "skip"
              THEN UNCHANGED <<pc, err, closeCount, onDataCalls, pending>>
              ELSE IF step.kind = "done"
              THEN /\ pc' = "done"
                   /\ err' = NoErr
                   /\ closeCount' = closeCount + 1
                   /\ UNCHANGED <<onDataCalls, pending>>
              ELSE IF step.kind = "fail"
              THEN /\ pc' = "done"
                   /\ err' = Err("invalid json stream data", NoAPIError, step.cause)
                   /\ closeCount' = closeCount + 1
                   /\ UNCHANGED <<onDataCalls, pending>>
              ELSE /\ pc' = "onData"
                   /\ onDataCalls' = Append(onDataCalls, step.val)
                   /\ pending' = Append(pending, step.val)
                   /\ UNCHANGED <<err, closeCount>>
    /\ UNCHANGED <<op, callerStream, args, cap, req, sent, resp, received, result,
                   ch, items>>

\* onData returns, and the loop goes on
onDataReturn ==
    /\ pc = "onData"
    /\ pending # <<>>
    /\ pending' = Tail(pending)
    /\ pc' = "received"
    /\ UNCHANGED <<op, callerStream, args, cap, req, sent, resp, received, offset,
                   closeCount, onDataCalls, result, err, ch, items>>

(***************************************************************************)
(* The specification of the client.                                        *)
(***************************************************************************)
CompletionRequests ==
    [Stream : BOOLEAN, Encodable : BOOLEAN, Prompt : {<<"p">>}]

InterviewArgsPool == [Cap : CapPool, JobTitle : TitlePool, JobDescription : DescPool]

Next ==
    \/ \E ctx \in Contexts : Engines(ctx)
    \/ \E ctx \in Contexts : Engine(ctx)
    \/ \E ctx \in Contexts, request \in CompletionRequests :
            CompletionWithEngine(ctx, request)
    \/ \E ctx \in Contexts, request \in CompletionRequests :
            CompletionStreamWithEngine(ctx, request)
    \/ \E ctx \in Contexts : SearchWithEngine(ctx)
    \/ \E ctx \in Contexts, a \in InterviewArgsPool : InterviewQuestions(ctx, a)
    \/ performRequest
    \/ DecodeResponse
    \/ StreamIteration
    \/ onDataReturn

Spec == Init /\ [][Next]_vars


(***************************************************************************)
(* The streamed body as the wire format describes it, for the properties   *)
(* of the streaming reader.                                                *)
(***************************************************************************)
\* the lines of a body that end in "\n", without the "\n"
CompleteLines(body) ==
    LET parts == Split(body, <<"\n">>)
    IN  SubSeq(parts, 1, Len(parts) - 1)

\* what is left of a line once surrounding white space and the first n bytes
\* are cut
After(line, n) ==
    LET t == TrimSpace(line)
    IN  [i \in 1..(Len(t) - n) |-> t[i + n]]

\* "other": no data frame; "terminator": the payload is the sentinel;
\* "sentinelMore": the payload starts with the sentinel and goes on; "event":
\* the payload decodes as a response event; "malformed": it does not
FrameClass(line) ==
    LET t == TrimSpace(line)
        payload == After(line, Len(dataPrefix))
    IN  IF ~(Len(t) >= Len(dataPrefix)
                /\ \A i \in 1..Len(dataPrefix) : t[i] = dataPrefix[i])
        THEN "other"
        ELSE IF payload = doneSequence THEN "terminator"
        ELSE IF Len(payload) > Len(doneSequence)
                /\ \A i \in 1..Len(doneSequence) : payload[i] = doneSequence[i]
        THEN "sentinelMore"
        ELSE IF UnmarshalCompletion(payload).ok THEN "event"
        ELSE "malformed"

\* the events of the frames before the first line that is no event and no
\* other line, the class of that line ("eof" when there is none), and its place
RECURSIVE Walk(_, _, _)
Walk(lines, k, events) ==
    IF k > Len(lines) THEN [events |-> events, stop |-> "eof", at |-> 0]
    ELSE LET c == FrameClass(lines[k])
         IN  IF c = "other" THEN Walk(lines, k + 1, events)
             ELSE IF c = "event"
             THEN Walk(lines, k + 1,
                       Append(events,
                              UnmarshalCompletion(After(lines[k], Len(dataPrefix))).val))
             ELSE [events |-> events, stop |-> c, at |-> k]

BodyWalk == Walk(CompleteLines(resp.Body), 1, <<>>)

IsPrefixOf(s, t) == Len(s) <= Len(t) /\ \A i \in 1..Len(s) : s[i] = t[i]

\* a streaming call holds a 2xx response
Streaming == IsStreamOp(op) /\ received /\ resp.StatusCode \in 200..299

\* C1: in a streaming call on a 2xx response, onData is called once for each
\* well-formed data frame before the first terminator or failure, in the order
\* received, each time with that frame's decoded payload: at every moment the
\* calls made are a prefix of those events, and at the return they are all of
\* them.
C1_HandlerOncePerFrameInOrder ==
    Streaming =>
        LET events == BodyWalk.events
        IN  /\ IsPrefixOf(onDataCalls, events)
            /\ (pc = "done" => onDataCalls = events)

\* two different events were delivered, in their order, around a line that is
\* no data frame
C1_Witness ==
    /\ Streaming
    /\ pc = "done"
    /\ Len(onDataCalls) = 2
    /\ onDataCalls[1].ID = "b"
    /\ onDataCalls[2].ID = "a"
    /\ Len(CompleteLines(resp.Body)) = 3

\* the lines before the last complete one are no data frames or are
\* well-formed data frames, the last one is the terminator, and nothing
\* follows it
EndsWithTerminator(body) ==
    LET lines == CompleteLines(body)
    IN  /\ lines # <<>>
        /\ body[Len(body)] = "\n"
        /\ FrameClass(lines[Len(lines)]) = "terminator"
        /\ \A i \in 1..(Len(lines) - 1) : FrameClass(lines[i]) \in {"other", "event"}

\* C2: a streaming call on a 2xx response whose body ends with the terminator
\* line, after any number of lines that are no data frames and of well-formed
\* data frames, returns nil.
C2_TerminatorReturnsNil ==
    (Streaming /\ pc = "done" /\ EndsWithTerminator(resp.Body)) => err = NoErr

\* the terminator came after a line that is no data frame and an event
C2_Witness ==
    /\ Streaming
    /\ pc = "done"
    /\ EndsWithTerminator(resp.Body)
    /\ Len(CompleteLines(resp.Body)) = 3
    /\ Len(onDataCalls) = 1
    /\ err = NoErr

\* C3: a streaming call whose body ends, by end-of-stream or by another read
\* error, before a terminator line was seen returns that read error and not
\* nil, whatever was delivered before.
C3_EndOfStreamIsAnError ==
    (Streaming /\ pc = "done" /\ BodyWalk.stop = "eof") =>
        /\ err # NoErr
        /\ err.type = "read"
        /\ err.cause = resp.endErr

\* the body ended cleanly after an event was delivered
C3_Witness ==
    /\ Streaming
    /\ pc = "done"
    /\ BodyWalk.stop = "eof"
    /\ resp.endErr = "EOF"
    /\ Len(onDataCalls) >= 1
    /\ err.cause = "EOF"

\* the events among the lines before line k
EventsBefore(lines, k) ==
    Cardinality({i \in 1..(k - 1) : FrameClass(lines[i]) = "event"})

\* C4: a streaming call that meets a data frame whose payload is not the
\* sentinel and does not decode returns an error that wraps the decode error,
\* and onData is called neither for that frame nor for any line after it.
C4_MalformedFrameHalts ==
    (Streaming /\ pc = "done") =>
        LET walk == BodyWalk
        IN  walk.stop = "malformed" =>
                /\ err # NoErr
                /\ err.type = "invalid json stream data"
                /\ err.cause \in {"SyntaxError", "UnmarshalTypeError"}
                /\ Len(onDataCalls) = EventsBefore(CompleteLines(resp.Body), walk.at)
                /\ offset <= Len(resp.Body)

\* a malformed frame in the middle, a well-formed frame after it that was not
\* delivered
C4_Witness ==
    /\ Streaming
    /\ pc = "done"
    /\ BodyWalk.stop = "malformed"
    /\ BodyWalk.at = 2
    /\ Len(CompleteLines(resp.Body)) = 3
    /\ FrameClass(CompleteLines(resp.Body)[3]) = "event"
    /\ FrameClass(CompleteLines(resp.Body)[1]) = "event"
    /\ Len(onDataCalls) = 1
    /\ offset < Len(resp.Body)


(***************************************************************************)
(* The transport invoker, the decoder and the operations.                  *)
(***************************************************************************)
\* a call received a response whose status is not 2xx
Refused == received /\ resp.StatusCode \notin 200..299

\* what the claim says of the error of a refused response
StatusErrorAsClaimed ==
    LET parsed == UnmarshalAPIErrorResponse(resp.Body)
    IN  /\ err.type = "APIError"
        /\ err.api.StatusCode = resp.StatusCode
        /\ parsed.ok => err.api.Message = parsed.Error.Message
        /\ ~parsed.ok => (err.api.Message = resp.Body /\ err.api.Type = Unexpected)

\* C5 as stated: for every response that is not 2xx the error returned is an
\* APIError with the status code observed, and the message of the envelope or
\* the raw body with type "Unexpected".
C5_Original == Refused => StatusErrorAsClaimed

\* C5, amended: that holds for every response that is not 2xx whose body was
\* read to its end; when reading the body fails, the error returned is
\* "failed to read from body" around the read error, and is no APIError.
C5_StatusErrorFromReadBody ==
    Refused =>
        /\ pc = "done"
        /\ resp.endErr = "EOF" => StatusErrorAsClaimed
        /\ resp.endErr # "EOF" =>
                /\ err.type = "failed to read from body"
                /\ err.cause = resp.endErr
                /\ err.api = NoAPIError

\* an envelope that carries a status_code of its own came with another status
C5_Witness ==
    /\ Refused
    /\ resp.endErr = "EOF"
    /\ resp.Body = bodyEnvelopeCode
    /\ resp.StatusCode = 404
    /\ err.api.StatusCode = 404
    /\ err.api.Message = <<"n", "o">>

\* C6: every operation takes a response as a success exactly when its status
\* is in 200..299: for any other status it returns an error and a nil result,
\* nothing of the body is decoded as a result, and the streaming operation
\* calls onData zero times; a 2xx response is never turned down for its status.
C6_SuccessIffStatus2xx ==
    /\ Refused =>
            /\ pc = "done"
            /\ err # NoErr
            /\ err.type \in {"APIError", "failed to read from body"}
            /\ result = NilResult
            /\ onDataCalls = <<>>
            /\ offset = 0
    /\ (received /\ resp.StatusCode \in 200..299) =>
            /\ pc \in {"received", "onData", "done"}
            /\ err.type \notin {"APIError", "failed to read from body"}

\* status 300, just past the range, on a streaming call whose body holds data
\* frames
C6_Witness ==
    /\ Refused
    /\ IsStreamOp(op)
    /\ resp.StatusCode = 300
    /\ resp.Body = bodyFrames
    /\ onDataCalls = <<>>
    /\ err # NoErr

\* C7: the body of every response received is closed exactly once on every
\* exit path: never twice, once when the call has returned, and not at all when
\* no response came.
C7_BodyClosedExactlyOnce ==
    /\ closeCount <= 1
    /\ ~received => closeCount = 0
    /\ (received /\ pc = "done") => closeCount = 1
    /\ (received /\ pc = "received") => closeCount = 0

\* a stream that failed to decode partway through its body, with the body
\* closed
C7_Witness ==
    /\ Streaming
    /\ pc = "done"
    /\ err.type = "invalid json stream data"
    /\ Len(onDataCalls) >= 1
    /\ offset < Len(resp.Body)
    /\ closeCount = 1

\* C8: the Stream flag of a request sent is false for Completion and
\* CompletionWithEngine and true for CompletionStream and
\* CompletionStreamWithEngine, whatever the caller put in the request.
C8_StreamFlagFromEntryPoint ==
    \A i \in 1..Len(sent) :
        /\ op \in {"CompletionWithEngine", "InterviewQuestions"} => sent[i].Stream = FALSE
        /\ op = "CompletionStreamWithEngine" => sent[i].Stream = TRUE

\* the caller asked CompletionWithEngine for a stream and the request sent has
\* the flag off
C8_Witness ==
    /\ op = "CompletionWithEngine"
    /\ callerStream = TRUE
    /\ Len(sent) = 1
    /\ sent[1].Stream = FALSE

\* a *string that is nil, empty or only white space
Blank(p) == ~p.set \/ \A i \in 1..Len(p.v) : p.v[i] \in WhiteSpace

\* C9: when the job title and the job description are both nil or empty after
\* trimming, InterviewQuestions returns nil and a validation error, and no
\* request is built or sent.
C9_NoInputNoRequest ==
    (op = "InterviewQuestions" /\ Blank(args.JobTitle) /\ Blank(args.JobDescription)) =>
        /\ pc = "done"
        /\ result = NilResult
        /\ err.type = "validation"
        /\ req = NoRequest
        /\ sent = <<>>
        /\ ~received

\* a title of white space only and an empty description
C9_Witness ==
    /\ op = "InterviewQuestions"
    /\ args.JobTitle.set
    /\ Len(args.JobTitle.v) > 0
    /\ args.JobDescription.set
    /\ Blank(args.JobTitle)
    /\ Blank(args.JobDescription)
    /\ err.type = "validation"
    /\ sent = <<>>


(***************************************************************************)
(* parseInterviewChoice on its own: the texts it is applied to.            *)
(***************************************************************************)
qPlain ==
    <<"A", "?">>
qBullet ==
    <<"-", "B", "?">>
qNumber ==
    <<"1", ")", " ", "C", "?">>
qTwoDigits ==
    <<"1", "2", ")", " ", "D", "?">>
qThreeDigits ==
    <<"1", "2", "3", ")", " ", "E", "?">>
qIndented ==
    <<" ", " ", "3", ")", " ", "F", "?">>
qTrailingSpace ==
    <<"G", "?", " ">>
qStatement ==
    <<"n", "o", ".">>
qEmpty ==
    <<>>
qBulletSpaceNumber ==
    <<"-", " ", "4", ")", " ", "H", "?">>
qLetter ==
    <<"x", ")", " ", "I", "?">>
qMark ==
    <<"?">>
qCarriageReturn ==
    <<"J", "?", "\r">>
qSigned ==
    <<"+", "5", ")", " ", "K", "?">>

QuestionLines ==
    {qPlain,
     qBullet,
     qNumber,
     qTwoDigits,
     qThreeDigits,
     qIndented,
     qTrailingSpace,
     qStatement,
     qEmpty,
     qBulletSpaceNumber,
     qLetter,
     qMark,
     qCarriageReturn,
     qSigned}

\* the text of the specification's example
exampleText ==
    <<"1", ")", " ", "W", "h", "a", "t", " ", "i", "s", " ", "y", "o",
      "u", "r", " ", "e", "x", "p", "e", "r", "i", "e", "n", "c", "e",
      "?", "\n", "-", "W", "h", "y", " ", "t", "h", "i", "s", " ", "r",
      "o", "l", "e", "?", "\n", "N", "o", "t", " ", "a", " ", "q", "u",
      "e", "s", "t", "i", "o", "n", ".">>
exampleFirst ==
    <<"W", "h", "a", "t", " ", "i", "s", " ", "y", "o", "u", "r", " ",
      "e", "x", "p", "e", "r", "i", "e", "n", "c", "e", "?">>
exampleSecond ==
    <<"W", "h", "y", " ", "t", "h", "i", "s", " ", "r", "o", "l", "e",
      "?">>

ParseTexts ==
    {Join(ls, <<"\n">>) : ls \in SeqsUpTo(QuestionLines, MaxTextLines)}
        \cup {exampleText}

InitParse ==
    /\ pc = "parse"
    /\ op = "none"
    /\ callerStream = FALSE
    /\ args = NoArgs
    /\ cap = 0
    /\ req = NoRequest
    /\ sent = <<>>
    /\ resp = NoResp
    /\ received = FALSE
    /\ offset = 0
    /\ closeCount = 0
    /\ onDataCalls = <<>>
    /\ pending = <<>>
    /\ result = NilResult
    /\ err = NoErr
    /\ ch \in {[Text |-> t] : t \in ParseTexts}
    /\ items = <<>>

ApplyParse ==
    /\ pc = "parse"
    /\ pc' = "parsed"
    /\ items' = parseInterviewChoice(ch)
    /\ UNCHANGED <<op, callerStream, args, cap, req, sent, resp, received, offset,
                   closeCount, onDataCalls, pending, result, err, ch>>

NextParse == ApplyParse

SpecParse == InitParse /\ [][NextParse]_vars

\* the lines of a text that end in "?", in their order
EndsInQuestionMark(l) == l # <<>> /\ l[Len(l)] = "?"
KeptLines(text) == SelectSeq(Split(text, <<"\n">>), EndsInQuestionMark)

\* an integer as written: digits, after a sign or not
Numeral(s) ==
    \/ s # <<>> /\ \A i \in 1..Len(s) : s[i] \in Digits
    \/ Len(s) >= 2 /\ s[1] \in {"+", "-"} /\ \A i \in 2..Len(s) : s[i] \in Digits

\* the length of the "N) " marker q starts with, N of at most maxLen
\* characters; 0 when q starts with none
MarkerLen(q, maxLen) ==
    LET ns == {n \in 1..maxLen :
                 /\ Len(q) >= n + 2
                 /\ q[n + 1] = ")"
                 /\ q[n + 2] = " "
                 /\ Numeral(SubSeq(q, 1, n))}
    IN  IF ns = {} THEN 0 ELSE (CHOOSE n \in ns : TRUE) + 2

\* a kept line without its bullet and its marker, trimmed
Question(l, maxLen) ==
    LET t == TrimSpace(l)
        b == IF t # <<>> /\ t[1] = "-" THEN SubSeq(t, 2, Len(t)) ELSE t
    IN  TrimSpace(SubSeq(b, MarkerLen(b, maxLen) + 1, Len(b)))

QuestionsAre(maxLen) ==
    LET kept == KeptLines(ch.Text)
    IN  /\ Len(items) = Len(kept)
        /\ \A i \in 1..Len(kept) :
                /\ items[i].Question = Question(kept[i], maxLen)
                /\ items[i].Index = i
        /\ ch.Text = exampleText =>
                /\ Len(items) = 2
                /\ items[1].Question = exampleFirst
                /\ items[2].Question = exampleSecond

\* C10 as stated: parseInterviewChoice returns, in their order, the lines of
\* the text that end in "?", each without a leading "-" and without a leading
\* numeric "N) " marker, whatever the number N, and trimmed; the example
\* text yields its two questions.
C10_Original == pc = "parsed" => QuestionsAre(Len(ch.Text))

\* C10, amended: the same, the "N) " marker being cut only when N is written
\* in at most two characters ("1)" through "99)"); a longer number stays in the
\* question.
C10_QuestionsOfText == pc = "parsed" => QuestionsAre(2)

\* the example text was parsed into its two questions
C10_Witness ==
    /\ pc = "parsed"
    /\ ch.Text = exampleText
    /\ Len(items) = 2
    /\ items[1].Question = exampleFirst

(***************************************************************************)
(* The cap of InterviewQuestions.                                          *)
(***************************************************************************)
\* the questions of every choice of a response, in the order of the choices
\* and, within a choice, of its lines
RECURSIVE ParsedQuestions(_)
ParsedQuestions(choices) ==
    IF choices = <<>> THEN <<>>
    ELSE LET kept == KeptLines(Head(choices).Text)
         IN  [i \in 1..Len(kept) |-> Question(kept[i], 2)] \o ParsedQuestions(Tail(choices))

\* an InterviewQuestions call that returned its questions
Interviewed == op = "InterviewQuestions" /\ pc = "done" /\ err = NoErr

\* result.Questions are the first n of the parsed questions, all of them when
\* there are fewer
FirstQuestions(n) ==
    LET parsed == ParsedQuestions(result.Choices)
        m == IF Len(parsed) < n THEN Len(parsed) ELSE n
    IN  /\ Len(result.Questions) = m
        /\ \A i \in 1..m : result.Questions[i].Question = parsed[i]

AllQuestions == FirstQuestions(Len(ParsedQuestions(result.Choices)))

\* C11 as stated: when Cap is supplied the returned questions are the first
\* Cap of the parsed questions, in order across the choices (all of them when
\* fewer were parsed); when Cap is not supplied every parsed question is
\* returned.
C11_Original ==
    Interviewed => IF args.Cap.set THEN FirstQuestions(args.Cap.v) ELSE AllQuestions

\* C11, amended: the returned questions are the first n of the parsed
\* questions, in order across the choices (all of them when fewer were
\* parsed), where n is Cap when Cap is supplied and 5 when it is not; a
\* supplied Cap below zero caps nothing, every parsed question is returned.
C11_CapOrDefault ==
    Interviewed =>
        IF ~args.Cap.set THEN FirstQuestions(DefaultCap)
        ELSE IF args.Cap.v < 0 THEN AllQuestions
        ELSE FirstQuestions(args.Cap.v)

\* six questions were parsed from two choices and, no Cap supplied, five of
\* them returned
C11_Witness ==
    /\ Interviewed
    /\ ~args.Cap.set
    /\ Len(ParsedQuestions(result.Choices)) = 6
    /\ Len(result.Questions) = 5

(***************************************************************************)
(* One attempt for each call.                                              *)
(***************************************************************************)
\* the call returned without a request: newRequest failed, or InterviewQuestions
\* refused its arguments
NothingBuilt == pc = "done" /\ req = NoRequest

\* the call failed at httpClient.Do
TransportFailed == pc = "done" /\ Len(sent) = 1 /\ ~received

\* the call returned on a response with a status outside 200..299
StatusFailed == pc = "done" /\ received /\ resp.StatusCode \notin 200..299

\* the call returned on a 2xx response whose body does not decode
DecodeFailed ==
    /\ pc = "done" /\ received /\ resp.StatusCode \in 200..299
    /\ ~IsStreamOp(op)
    /\ ~DecodeResult(resp.Body).ok

\* the streaming call returned on a body that ended early or held a frame
\* that does not decode
StreamFailed ==
    /\ pc = "done" /\ Streaming
    /\ BodyWalk.stop \in {"eof", "malformed"}

OneAttempt ==
    /\ Len(sent) <= 1
    /\ NothingBuilt => sent = <<>> /\ err # NoErr
    /\ TransportFailed => err.type = "transport" /\ result = NilResult
    /\ StatusFailed \/ DecodeFailed => err # NoErr /\ result = NilResult
    /\ StreamFailed => err # NoErr
    /\ err # NoErr => pc = "done"

\* C12: no operation retries.  The transport is called at most once in a
\* call, and not at all when building the request failed; an error of the
\* request construction, the transport, the status check, the decoding or the
\* stream reading is returned as a non-nil error, and once an error is set the
\* call has returned: no step follows it, no request is sent again.
C12_NoRetry ==
    /\ []OneAttempt
    /\ [][err # NoErr => err' = err /\ sent' = sent /\ pc' = "done"]_vars

\* httpClient.Do failed on the one request sent, and the call returned the
\* error
C12_Witness ==
    /\ TransportFailed
    /\ err.type = "transport"
    /\ sent = <<req>>

(***************************************************************************)
(* The sentinel.                                                           *)
(***************************************************************************)
\* the streaming call has returned on a 2xx response
StreamReturned == Streaming /\ pc = "done"

\* the call failed on a payload that does not decode
DecodeError ==
    /\ err.type = "invalid json stream data"
    /\ err.cause \in {"SyntaxError", "UnmarshalTypeError"}

\* C13 as stated: a data frame ends the stream with success if and only if its
\* payload equals the sentinel "[DONE]"; every other data payload, one that
\* starts with "[DONE]" and goes on included, is decoded, so it reaches onData
\* or makes the call return a decode error.
C13_Original ==
    StreamReturned =>
        LET walk == BodyWalk
        IN  /\ err = NoErr <=> walk.stop = "terminator"
            /\ walk.stop \in {"sentinelMore", "malformed"} => DecodeError
            /\ onDataCalls = walk.events

\* C13, amended: a data frame ends the stream with success if and only if its
\* payload begins with the sentinel "[DONE]", so a payload that starts with
\* "[DONE]" and goes on ends the stream too and is not decoded; every data
\* payload that does not begin with "[DONE]" is decoded, so it reaches onData
\* or makes the call return a decode error.
C13_DoneIffSentinelPrefix ==
    StreamReturned =>
        LET walk == BodyWalk
        IN  /\ err = NoErr <=> walk.stop \in {"terminator", "sentinelMore"}
            /\ walk.stop = "malformed" => DecodeError
            /\ onDataCalls = walk.events

\* an event was delivered, then a frame whose payload is "[DONE]x" ended the
\* stream with success
C13_Witness ==
    /\ StreamReturned
    /\ BodyWalk.stop = "sentinelMore"
    /\ Len(onDataCalls) = 1
    /\ err = NoErr

(***************************************************************************)
(* Lines that are no data frames.                                          *)
(***************************************************************************)
\* a line that, trimmed, does not begin with "data: "
Discarded(line) == FrameClass(line) = "other"
Kept(line) == ~Discarded(line)

\* how many complete lines of the body the reader has returned
LinesRead == Cardinality({i \in 1..offset : resp.Body[i] = "\n"})

\* the reader is about to read a complete line that is no data frame
AtDiscardedLine ==
    /\ Streaming
    /\ pc = "received"
    /\ LinesRead < Len(CompleteLines(resp.Body))
    /\ Discarded(CompleteLines(resp.Body)[LinesRead + 1])

\* the outcome of the call is the outcome the body has without its discarded
\* lines
AsIfAbsent ==
    StreamReturned =>
        LET walk == Walk(SelectSeq(CompleteLines(resp.Body), Kept), 1, <<>>)
        IN  /\ onDataCalls = walk.events
            /\ err = NoErr <=> walk.stop \in {"terminator", "sentinelMore"}
            /\ walk.stop = "malformed" => DecodeError
            /\ walk.stop = "eof" => err.type = "read" /\ err.cause = resp.endErr

\* C14: a line that, trimmed, does not begin with "data: " is discarded with no
\* effect: reading it calls no handler and sets no error, the reader stays in
\* the loop, and the call returns what it returns on the body without that
\* line.  Blank lines, lines of another field and the line "data: " with no
\* payload (trimmed to "data:") are such lines.
C14_OtherLinesDiscarded ==
    /\ []AsIfAbsent
    /\ [][AtDiscardedLine =>
            /\ pc' = "received"
            /\ err' = err
            /\ onDataCalls' = onDataCalls
            /\ closeCount' = closeCount
            /\ LinesRead' = LinesRead + 1]_vars

\* a "data: " line with no payload was read and discarded, and the event and
\* the terminator after it had their effect
C14_Witness ==
    /\ StreamReturned
    /\ Len(CompleteLines(resp.Body)) = 3
    /\ CompleteLines(resp.Body)[1] = lnNoPayload
    /\ CompleteLines(resp.Body)[2] = lnEventA
    /\ CompleteLines(resp.Body)[3] = lnDone
    /\ onDataCalls = BodyWalk.events
    /\ Len(onDataCalls) = 1
    /\ err = NoErr

(***************************************************************************)
(* The handler and the loop.                                               *)
(***************************************************************************)
\* a step that reads from the body
ReadStarts == offset' # offset

\* C15: onData is called synchronously, in turn with the reads: the read of
\* the next line never starts before the handler called for the line before it
\* has returned, so at most one decoded event is pending at any time, and it is
\* the last one the handler was called with.
C15_HandlerInterleaved ==
    /\ [](/\ Len(pending) <= 1
          /\ pending # <<>> =>
                /\ pc = "onData"
                /\ onDataCalls # <<>>
                /\ pending[1] = onDataCalls[Len(onDataCalls)])
    /\ [][ReadStarts => pending = <<>>]_vars
    /\ [][pc = "onData" => pending' = <<>> /\ offset' = offset]_vars

\* the handler returned from the first event, the next line was read and the
\* handler is running on the second event
C15_Witness ==
    /\ pc = "onData"
    /\ Len(onDataCalls) = 2
    /\ pending = <<onDataCalls[2]>>
    /\ offset > 0

(***************************************************************************)
(* The last line without its newline.                                      *)
(***************************************************************************)
\* the bytes of the body after its last "\n"
LastPartial(body) ==
    LET parts == Split(body, <<"\n">>)
    IN  parts[Len(parts)]

\* the streaming call returned after it read up to the bytes that follow the
\* last "\n" of the body
ReachedPartial ==
    /\ StreamReturned
    /\ LastPartial(resp.Body) # <<>>
    /\ BodyWalk.stop = "eof"

\* C16: a last line that is not ended by "\n" is never processed.  The call
\* returns the error the body ends with and does nothing with those bytes: a
\* last "data: [DONE]" without its newline does not make the call succeed, and
\* a last well-formed frame without its newline is not delivered to onData.
C16_PartialLineNotProcessed ==
    ReachedPartial =>
        /\ err # NoErr
        /\ err.type = "read"
        /\ err.cause = resp.endErr
        /\ onDataCalls = BodyWalk.events
        /\ offset = Len(resp.Body)

\* after an event, "data: [DONE]" came without its newline and the call
\* returned io.EOF
C16_Witness ==
    /\ ReachedPartial
    /\ LastPartial(resp.Body) = lnDone
    /\ Len(onDataCalls) = 1
    /\ err.cause = "EOF"

\* a last well-formed frame without its newline was dropped
C16_WitnessFrame ==
    /\ ReachedPartial
    /\ LastPartial(resp.Body) = lnEventA
    /\ onDataCalls = <<>>

=============================================================================
